---------------------------- MODULE Spec2Model ----------------------------
(***************************************************************************)
(* A model of the-super-tiny-compiler-ts (src/the-super-tiny-compiler.ts): *)
(* tokenizer, parser, traverser, transformer, codeGenerator and compiler.  *)
(*                                                                         *)
(* Text is modelled as a sequence of one-character strings.  The tokenizer *)
(* is a step machine (one action per loop iteration) because its loops do  *)
(* not always terminate; the other stages are terminating recursive        *)
(* functions and are operators applied by one action each.                 *)
(***************************************************************************)
EXTENDS Integers, Sequences, FiniteSets, TLC

VARIABLES
    input,      \* tokenizer: the source text                       (line 38)
    current,    \* tokenizer: the cursor, 0-based                   (line 40)
    tokens,     \* tokenizer: the tokens pushed so far / parser input (39)
    value,      \* tokenizer: numberValue / letterValue / stringValue
    logged,     \* tokenizer: number of console.log diagnostics     (line 85)
    pc,         \* position of the pipeline
    ast,        \* parser: the returned tree, or the thrown error   (line 259)
    visitor,    \* traverser: the visitor table it is called with
    calls,      \* traverser: the enter/exit calls made, in order
    heap,       \* transformer: _context fields and target arrays
    newAst,     \* transformer: the returned target Program         (line 260)
    output,     \* codeGenerator: the returned strings              (line 263)
    sexpr       \* the expression whose text the input was drawn as

vars == <<input, current, tokens, value, logged, pc, ast, visitor, calls,
          heap, newAst, output, sexpr>>

tokVars == <<input, current, tokens, value, logged>>
lateVars == <<ast, visitor, calls, heap, newAst, output, sexpr>>

-----------------------------------------------------------------------------
(* Bounds of the model *)

MaxLen == 4          \* longest input text drawn for the tokenizer
MaxOverrun == 2      \* iterations followed once a cursor is past the input
MaxLog == 2          \* diagnostics followed on one unrecognised character
MaxTokens == 6       \* longest token sequence drawn for the parser
MaxNodes == 4        \* most nodes below the Program of a drawn source tree

\* The characters inputs are drawn from: one per class the tokenizer tells apart.
Alphabet == {"a", "1", "(", ")", " ", "\"", "$"}

NONE == "none"

-----------------------------------------------------------------------------
(* tokenizer *)

\* input[current] of JavaScript: undefined once the index is past the end.
undefined == "undefined"

charAt(s, i) == IF i < Len(s) THEN s[i + 1] ELSE undefined

\* RegExp.prototype.test converts its argument to a string: test(undefined)
\* tests the text "undefined", which holds letters and nothing else.
letterReg(char) ==
    \/ char = undefined
    \/ char \in {"a","b","c","d","e","f","g","h","i","j","k","l","m",
                 "n","o","p","q","r","s","t","u","v","w","x","y","z",
                 "A","B","C","D","E","F","G","H","I","J","K","L","M",
                 "N","O","P","Q","R","S","T","U","V","W","X","Y","Z"}

numberReg(char) == char \in {"0","1","2","3","4","5","6","7","8","9"}

parenReg(char) == char \in {"(", ")"}

whiteSpaceReg(char) == char \in {" ", "\t", "\n", "\r"}

\* `text += char`: the characters appended to a string by a character, or by
\* undefined (JavaScript appends the text "undefined").
appended(char) ==
    IF char = undefined THEN <<"u","n","d","e","f","i","n","e","d">>
                        ELSE <<char>>

token(type, val) == [type |-> type, value |-> val]

\* One test of the outer `while (current < input.length)` and, inside it, the
\* switch up to the point where an inner loop starts.
TokenizerScan ==
    /\ pc = "scan"
    /\ LET char == charAt(input, current) IN
       IF ~(current < Len(input))
       THEN /\ pc' = "tokenized"
            /\ UNCHANGED <<current, tokens, value, logged>>
       ELSE IF numberReg(char)
       THEN /\ value' = <<>>
            /\ pc' = "number"
            /\ UNCHANGED <<current, tokens, logged>>
       ELSE IF letterReg(char)
       THEN /\ value' = <<>>
            /\ pc' = "letter"
            /\ UNCHANGED <<current, tokens, logged>>
       ELSE IF parenReg(char)
       THEN /\ tokens' = Append(tokens, token("paren", <<char>>))
            /\ current' = current + 1
            /\ UNCHANGED <<value, logged, pc>>
       ELSE IF whiteSpaceReg(char)
       THEN /\ current' = current + 1
            /\ UNCHANGED <<tokens, value, logged, pc>>
       ELSE IF char = "\""
       THEN /\ value' = <<>>
            /\ current' = current + 1
            /\ pc' = "string"
            /\ UNCHANGED <<tokens, logged>>
       ELSE \* default: console.log and break; the cursor is left where it is
            /\ logged < MaxLog
            /\ logged' = logged + 1
            /\ UNCHANGED <<current, tokens, value, pc>>
    /\ UNCHANGED <<input>>
    /\ UNCHANGED lateVars

\* One test of `while (numberReg.test(char))`.
TokenizerNumber ==
    /\ pc = "number"
    /\ LET char == charAt(input, current) IN
       IF numberReg(char)
       THEN /\ value' = value \o appended(char)
            /\ current' = current + 1
            /\ UNCHANGED <<tokens, pc>>
       ELSE /\ tokens' = Append(tokens, token("number", value))
            /\ pc' = "scan"
            /\ UNCHANGED <<current, value>>
    /\ UNCHANGED <<input, logged>>
    /\ UNCHANGED lateVars

\* One test of `while (letterReg.test(char))`.
TokenizerLetter ==
    /\ pc = "letter"
    /\ current < Len(input) + MaxOverrun
    /\ LET char == charAt(input, current) IN
       IF letterReg(char)
       THEN /\ value' = value \o appended(char)
            /\ current' = current + 1
            /\ UNCHANGED <<tokens, pc>>
       ELSE /\ tokens' = Append(tokens, token("name", value))
            /\ pc' = "scan"
            /\ UNCHANGED <<current, value>>
    /\ UNCHANGED <<input, logged>>
    /\ UNCHANGED lateVars

\* One test of `while (char !== '"')`.
TokenizerString ==
    /\ pc = "string"
    /\ current < Len(input) + MaxOverrun
    /\ LET char == charAt(input, current) IN
       IF char # "\""
       THEN /\ value' = value \o appended(char)
            /\ current' = current + 1
            /\ UNCHANGED <<tokens, pc>>
       ELSE /\ current' = current + 1
            /\ tokens' = Append(tokens, token("string", value))
            /\ pc' = "scan"
            /\ UNCHANGED <<value>>
    /\ UNCHANGED <<input, logged>>
    /\ UNCHANGED lateVars

-----------------------------------------------------------------------------
(* parser *)

\* tokens[i] of JavaScript (0-based).  Past the end it is undefined, and any
\* read of a property of undefined throws a TypeError.
noToken == [type |-> undefined, value |-> <<>>]

isUndefined(tok) == tok.type = undefined

tokenAt(toks, i) == IF i < Len(toks) THEN toks[i + 1] ELSE noToken

\* A thrown TypeError: no node is returned.
thrown == [ok |-> FALSE, node |-> [type |-> "TypeError"], current |-> 0, token |-> noToken]

returned(node, cur, tok) == [ok |-> TRUE, node |-> node, current |-> cur, token |-> tok]

\* `current` and `token` are the closure variables shared by every call of
\* walk; a call returns the node together with their values on return.
RECURSIVE walk(_, _, _)
RECURSIVE walkParams(_, _, _, _)

\* The number and string cases advance `current` and leave `token` as it is.
walk(toks, cur, tok) ==
    IF isUndefined(tok) THEN thrown                     \* token.type of undefined
    ELSE IF tok.type = "number"
    THEN returned([type |-> "NumberLiteral", value |-> tok.value], cur + 1, tok)
    ELSE IF tok.type = "string"
    THEN returned([type |-> "StringLiteral", value |-> tok.value], cur + 1, tok)
    ELSE IF tok.type = "paren" /\ tok.value = <<"(">>
    THEN LET nameTok == tokenAt(toks, cur + 1) IN    \* token = tokens[++current]
         IF isUndefined(nameTok) THEN thrown            \* token.value of undefined
         ELSE walkParams(toks, cur + 2, tokenAt(toks, cur + 2),
                         [type |-> "CallExpression", name |-> nameTok.value,
                          params |-> <<>>])
    ELSE thrown                                      \* throw new TypeError(token.type)

\* The `while` of lines 112-119 and the two statements after it.
walkParams(toks, cur, tok, curNode) ==
    IF isUndefined(tok) THEN thrown                     \* token.type of undefined
    ELSE IF tok.type # "paren" \/ (tok.type = "paren" /\ tok.value # <<")">>)
    THEN LET r == walk(toks, cur, tok) IN
         IF ~r.ok THEN thrown
         ELSE walkParams(toks, r.current, tokenAt(toks, r.current),   \* token = tokens[current]
                         [curNode EXCEPT !.params = Append(@, r.node)])
    ELSE returned(curNode, cur + 1, tok)

\* The top-level `while (current < tokens.length)`: `token` is whatever the
\* previous walk left in it.
RECURSIVE parserLoop(_, _, _, _)
parserLoop(toks, cur, tok, body) ==
    IF cur < Len(toks)
    THEN LET r == walk(toks, cur, tok) IN
         IF ~r.ok THEN thrown
         ELSE parserLoop(toks, r.current, r.token, Append(body, r.node))
    ELSE returned([type |-> "Program", body |-> body], cur, tok)

parser(toks) == parserLoop(toks, 0, tokenAt(toks, 0), <<>>)

ParserCall ==
    /\ pc = "tokenized"
    /\ LET r == parser(tokens) IN
       /\ ast' = r.node
       /\ pc' = IF r.ok THEN "parsed" ELSE "parseError"
    /\ UNCHANGED <<tokVars, visitor, calls, heap, newAst, output, sexpr>>

-----------------------------------------------------------------------------
(* traverser *)

\* A node object is identified by its place in the source tree: the root is
\* <<0>> and the i-th child of the node at p is Append(p, i).  null is <<>>.
null == <<>>

rootPath == <<0>>

children(node) ==
    IF node.type = "Program" THEN node.body
    ELSE IF node.type = "CallExpression" THEN node.params
    ELSE <<>>

RECURSIVE nodeAt(_, _, _)
nodeAt(node, path, i) ==
    IF i > Len(path) THEN node ELSE nodeAt(children(node)[path[i]], path, i + 1)

\* The node object at `path` of the tree rooted at `root`.
deref(root, path) == nodeAt(root, path, 2)

\* What a visitor method does when called.  "observe" stands for a callback
\* that leaves the trees alone; "pushNode" and "enterCall" are the methods of
\* the transformer's visitor.  The state s carries the calls made so far, the
\* _context field of every source node that has one (ctx: path -> array) and
\* the arrays of the target tree (arrays[id]: its elements).  An element is a
\* target node built by the transformer, or [src |-> p]: the source node
\* object at p itself.
pushTo(s, parent, element) ==
    IF parent \in DOMAIN s.ctx
    THEN [s EXCEPT !.arrays[s.ctx[parent]] = Append(@, element)]
    ELSE [s EXCEPT !.error = TRUE]               \* undefined.push: TypeError

\* A transformer that appends a copy of the literal.
pushCopy(root, path, parent, s) ==
    IF parent # null
    THEN pushTo(s, parent, [type |-> deref(root, path).type,
                            value |-> deref(root, path).value])
    ELSE s

\* lines 194-198 and 201-205: if (parent) parent['_context'].push(node)
pushNode(root, path, parent, s) ==
    IF parent # null THEN pushTo(s, parent, [src |-> path]) ELSE s

\* A transformer that wraps no call.
wrappedNever(parentNode, expression) == expression

\* line 221: the new call is wrapped unless the parent is a CallExpression
wrapped(parentNode, expression) ==
    IF parentNode.type # "CallExpression"
    THEN [type |-> "ExpressionStatement", expression |-> expression]
    ELSE expression

\* A transformer that appends a new call only to the body of the Program.
enterCallTopOnly(root, path, parent, s) ==
    LET node == deref(root, path)
        id == Len(s.arrays) + 1
        expression == [type |-> "CallExpression",
                       callee |-> [type |-> "Identifier", name |-> node.name],
                       arguments |-> id]
        s1 == [s EXCEPT !.arrays = Append(@, <<>>),
                        !.ctx = (path :> id) @@ @]
    IN  IF parent # null /\ deref(root, parent).type # "CallExpression"
        THEN pushTo(s1, parent, [type |-> "ExpressionStatement", expression |-> expression])
        ELSE s1

\* lines 208-229
enterCall(root, path, parent, s) ==
    LET node == deref(root, path)
        id == Len(s.arrays) + 1                  \* arguments: [] is a new array
        expression == [type |-> "CallExpression",
                       callee |-> [type |-> "Identifier", name |-> node.name],
                       arguments |-> id]
        s1 == [s EXCEPT !.arrays = Append(@, <<>>),
                        !.ctx = (path :> id) @@ @]      \* node['_context'] = ...
    IN  IF parent # null
        THEN pushTo(s1, parent, wrapped(deref(root, parent), expression))
        ELSE s1

invoke(method, which, root, path, parent, s) ==
    LET s1 == [s EXCEPT !.calls = Append(@, [method |-> which, node |-> path,
                                             parent |-> parent])]
    IN  IF method = "pushNode" THEN pushNode(root, path, parent, s1)
        ELSE IF method = "enterCall" THEN enterCall(root, path, parent, s1)
        ELSE s1

RECURSIVE traverseNode(_, _, _, _, _)
RECURSIVE traverseArray(_, _, _, _, _)
RECURSIVE traverseArrayBackwards(_, _, _, _, _)

\* A forEach that runs from the last element to the first.
traverseArrayBackwards(v, root, parent, i, s) ==
    LET n == Len(children(deref(root, parent))) IN
    IF i > n \/ s.error THEN s
    ELSE traverseArrayBackwards(v, root, parent, i + 1,
                                traverseNode(v, root, Append(parent, n + 1 - i), parent, s))

\* nodeArray.forEach(node => traverseNode(node, parent)), from element i on
traverseArray(v, root, parent, i, s) ==
    IF i > Len(children(deref(root, parent))) \/ s.error THEN s
    ELSE traverseArray(v, root, parent, i + 1,
                       traverseNode(v, root, Append(parent, i), parent, s))

traverseNode(v, root, path, parent, s) ==
    LET node == deref(root, path)
        methods == v[node.type]
        s1 == IF methods.enter # NONE
              THEN invoke(methods.enter, "enter", root, path, parent, s)
              ELSE s
        s2 == IF s1.error THEN s1
              ELSE IF node.type \in {"NumberLiteral", "StringLiteral"} THEN s1
              ELSE IF node.type \in {"Program", "CallExpression"}
              THEN traverseArray(v, root, path, 1, s1)
              ELSE [s1 EXCEPT !.error = TRUE]    \* throw new TypeError(node.type)
    IN  IF s2.error THEN s2
        ELSE IF methods.exit # NONE
        THEN invoke(methods.exit, "exit", root, path, parent, s2)
        ELSE s2

emptyState == [calls |-> <<>>, ctx |-> <<>>, arrays |-> <<>>, error |-> FALSE]

traverser(tree, v) == traverseNode(v, tree, rootPath, null, emptyState)

TraverserCall ==
    /\ pc = "tree"
    /\ calls' = traverser(ast, visitor).calls
    /\ pc' = "parsed"
    /\ UNCHANGED <<tokVars, ast, visitor, heap, newAst, output, sexpr>>

-----------------------------------------------------------------------------
(* transformer *)

noMethods == [enter |-> NONE, exit |-> NONE]

\* lines 192-231
transformerVisitor ==
    [Program |-> noMethods,
     NumberLiteral |-> [enter |-> "pushNode", exit |-> NONE],
     StringLiteral |-> [enter |-> "pushNode", exit |-> NONE],
     CallExpression |-> [enter |-> "enterCall", exit |-> NONE]]

\* newAst.body is array 1, and ast['_context'] refers to it (line 190).
transformer(tree) ==
    LET s0 == [emptyState EXCEPT !.arrays = << <<>> >>,
                                 !.ctx = (rootPath :> 1)]
    IN  [state |-> traverseNode(transformerVisitor, tree, rootPath, null, s0),
         newAst |-> [type |-> "Program", body |-> 1]]

TransformerCall ==
    /\ pc = "parsed"
    /\ LET r == transformer(ast) IN
       /\ heap' = [ctx |-> r.state.ctx, arrays |-> r.state.arrays]
       /\ newAst' = r.newAst
       /\ pc' = IF r.state.error THEN "transformError" ELSE "transformed"
    /\ UNCHANGED <<tokVars, ast, visitor, calls, output, sexpr>>

-----------------------------------------------------------------------------
(* codeGenerator *)

RECURSIVE join(_, _)
join(strings, sep) ==
    IF strings = <<>> THEN <<>>
    ELSE IF Len(strings) = 1 THEN strings[1]
    ELSE strings[1] \o sep \o join(Tail(strings), sep)

\* The object an array element stands for.
object(root, element) ==
    IF "src" \in DOMAIN element THEN deref(root, element.src) ELSE element

\* A generator that leaves the quotes of a string out.
unquoted(text) == text

\* line 251: '"' + node.value + '"'
quoted(text) == <<"\"">> \o text \o <<"\"">>

\* The marker left where codeGenerator throws.
typeError == <<"TypeError">>

RECURSIVE codeGenerator(_, _, _)
RECURSIVE mapCodeGenerator(_, _, _)

mapCodeGenerator(root, h, array) ==
    IF array = <<>> THEN <<>>
    ELSE <<codeGenerator(root, h, object(root, array[1]))>>
         \o mapCodeGenerator(root, h, Tail(array))

\* Every case but Program returns a string.
codeGenerator(root, h, node) ==
    IF node.type = "ExpressionStatement"
    THEN codeGenerator(root, h, node.expression) \o <<";">>
    ELSE IF node.type = "CallExpression"
    THEN codeGenerator(root, h, node.callee) \o <<"(">>
         \o join(mapCodeGenerator(root, h, h.arrays[node.arguments]), <<",">>)
         \o <<")">>
    ELSE IF node.type = "Identifier" THEN node.name
    ELSE IF node.type = "NumberLiteral" THEN node.value
    ELSE IF node.type = "StringLiteral" THEN quoted(node.value)
    ELSE typeError                               \* throw new TypeError(node.type)

\* case 'Program': node.body?.map(codeGenerator)
codeGeneratorProgram(root, h, node) == mapCodeGenerator(root, h, h.arrays[node.body])

CodeGeneratorCall ==
    /\ pc = "transformed"
    /\ output' = codeGeneratorProgram(ast, heap, newAst)
    /\ pc' = "generated"
    /\ UNCHANGED <<tokVars, ast, visitor, calls, heap, newAst, sexpr>>

-----------------------------------------------------------------------------
(* The specifications *)

TokNext == TokenizerScan \/ TokenizerNumber \/ TokenizerLetter \/ TokenizerString

\* Every text of at most n characters of the alphabet.
RECURSIVE Texts(_)
Texts(n) ==
    IF n = 0 THEN {<<>>}
    ELSE LET shorter == Texts(n - 1) IN
         shorter \cup {Append(t, c) : t \in {s \in shorter : Len(s) = n - 1}, c \in Alphabet}

noNode == [type |-> NONE]

noHeap == [ctx |-> <<>>, arrays |-> <<>>]

\* The variables of the later stages before those stages run.
Unused ==
    /\ ast = noNode
    /\ visitor = transformerVisitor
    /\ calls = <<>>
    /\ heap = noHeap
    /\ newAst = noNode
    /\ output = <<>>
    /\ sexpr = noNode

TokInit ==
    /\ input \in Texts(MaxLen)
    /\ current = 0
    /\ tokens = <<>>
    /\ value = <<>>
    /\ logged = 0
    /\ pc = "scan"
    /\ Unused

SpecTok == TokInit /\ [][TokNext]_vars

\* Every sequence of at most n of the five tokens the parser tells apart.
TokenAlphabet ==
    {token("paren", <<"(">>), token("paren", <<")">>), token("name", <<"a">>),
     token("number", <<"1">>), token("string", <<"s">>)}

RECURSIVE TokenSeqs(_)
TokenSeqs(n) ==
    IF n = 0 THEN {<<>>}
    ELSE LET shorter == TokenSeqs(n - 1) IN
         shorter \cup {Append(t, k) : t \in {s \in shorter : Len(s) = n - 1},
                                      k \in TokenAlphabet}

\* The parser called on a token sequence, then the rest of the pipeline.
ParseInit ==
    /\ input = <<>>
    /\ current = 0
    /\ tokens \in TokenSeqs(MaxTokens)
    /\ value = <<>>
    /\ logged = 0
    /\ pc = "tokenized"
    /\ Unused

ParseNext == ParserCall \/ TransformerCall \/ CodeGeneratorCall

SpecParse == ParseInit /\ [][ParseNext]_vars

\* Source trees: the expressions of exactly n nodes and the sequences of
\* expressions of n nodes in all, over the given names and literal values.
RECURSIVE Forests(_, _, _, _)
Exprs(n, names, numbers, strings) ==
    (IF n = 1
     THEN {[type |-> "NumberLiteral", value |-> x] : x \in numbers}
          \cup {[type |-> "StringLiteral", value |-> x] : x \in strings}
     ELSE {})
    \cup {[type |-> "CallExpression", name |-> x, params |-> f] :
              x \in names, f \in Forests(n - 1, names, numbers, strings)}

Forests(n, names, numbers, strings) ==
    IF n = 0 THEN {<<>>}
    ELSE UNION {{<<e>> \o f : e \in Exprs(k, names, numbers, strings),
                              f \in Forests(n - k, names, numbers, strings)} :
                k \in 1..n}

Programs ==
    {[type |-> "Program", body |-> f] :
        f \in UNION {Forests(n, {<<"a">>}, {<<"1">>}, {<<"s">>}) : n \in 0..MaxNodes}}

\* Visitors whose methods leave the trees alone, with some methods absent.
observer(kinds, enter, exit) ==
    [k \in {"Program", "CallExpression", "NumberLiteral", "StringLiteral"} |->
        IF k \in kinds
        THEN [enter |-> IF enter THEN "observe" ELSE NONE,
              exit |-> IF exit THEN "observe" ELSE NONE]
        ELSE noMethods]

Visitors ==
    LET all == {"Program", "CallExpression", "NumberLiteral", "StringLiteral"} IN
    {observer(all, TRUE, TRUE), observer(all, TRUE, FALSE), observer(all, FALSE, TRUE),
     observer({"CallExpression"}, TRUE, TRUE),
     observer({"NumberLiteral", "StringLiteral"}, TRUE, FALSE)}

\* The traverser called on a source tree with a visitor, then the transformer
\* and the generator on the same tree.
TreeInit ==
    /\ input = <<>>
    /\ current = 0
    /\ tokens = <<>>
    /\ value = <<>>
    /\ logged = 0
    /\ pc = "tree"
    /\ ast \in Programs
    /\ visitor \in Visitors
    /\ calls = <<>>
    /\ heap = noHeap
    /\ newAst = noNode
    /\ output = <<>>
    /\ sexpr = noNode

TreeNext == TraverserCall \/ TransformerCall \/ CodeGeneratorCall

SpecTree == TreeInit /\ [][TreeNext]_vars

\* The source text of an expression.  Tokens are set apart by one blank where
\* they must be (after a name unless a paren follows, between two numbers)
\* and, when spaced, everywhere.
RECURSIVE textOf(_, _)
RECURSIVE textOfParams(_, _, _, _)
textOf(e, spaced) ==
    IF e.type = "NumberLiteral" THEN e.value
    ELSE IF e.type = "StringLiteral" THEN <<"\"">> \o e.value \o <<"\"">>
    ELSE <<"(">> \o (IF spaced THEN <<" ">> ELSE <<>>) \o e.name
         \o textOfParams(e.params, 1, "name", spaced)
         \o (IF spaced THEN <<" ">> ELSE <<>>) \o <<")">>

textOfParams(params, i, before, spaced) ==
    IF i > Len(params) THEN <<>>
    ELSE LET kind == params[i].type
             blank == \/ spaced
                      \/ before = "name" /\ kind # "CallExpression"
                      \/ before = "NumberLiteral" /\ kind = "NumberLiteral"
         IN  (IF blank THEN <<" ">> ELSE <<>>) \o textOf(params[i], spaced)
             \o textOfParams(params, i + 1, kind, spaced)

\* The well-formed top-level calls of at most MaxNodes nodes.
Calls ==
    {e \in UNION {Exprs(n, {<<"a", "d">>}, {<<"1", "2">>}, {<<>>, <<"b", " ", "$">>}) :
                    n \in 1..MaxNodes} :
        e.type = "CallExpression"}

\* compiler called on the text of a well-formed top-level call.
Init ==
    /\ sexpr \in Calls
    /\ input \in {textOf(sexpr, spaced) : spaced \in BOOLEAN}
    /\ current = 0
    /\ tokens = <<>>
    /\ value = <<>>
    /\ logged = 0
    /\ pc = "scan"
    /\ ast = noNode
    /\ visitor = transformerVisitor
    /\ calls = <<>>
    /\ heap = noHeap
    /\ newAst = noNode
    /\ output = <<>>

\* lines 257-265
Next == TokNext \/ ParserCall \/ TransformerCall \/ CodeGeneratorCall

Spec == Init /\ [][Next]_vars

-----------------------------------------------------------------------------
(* Claims about compiler, under Spec *)

RECURSIVE rendering(_)
RECURSIVE renderings(_)
renderings(params) ==
    IF params = <<>> THEN <<>>
    ELSE <<rendering(params[1])>> \o renderings(Tail(params))

\* name(arg,...,arg): a number is its digits, a string its text in double
\* quotes, a nested call the same again.
rendering(e) ==
    IF e.type = "NumberLiteral" THEN e.value
    ELSE IF e.type = "StringLiteral" THEN <<"\"">> \o e.value \o <<"\"">>
    ELSE e.name \o <<"(">> \o join(renderings(e.params), <<",">>) \o <<")">>

\* C1: on the text of one well-formed top-level call, compiler returns
\* exactly one string, the rendering of the call followed by ";".  It gets
\* there: the tokenizer's cursor stays within the text, no character is
\* reported as not understood, and no stage throws.
C1_CompilesCall ==
    /\ current <= Len(input) /\ logged = 0
    /\ pc \notin {"parseError", "transformError"}
    /\ pc = "generated" => output = <<rendering(sexpr) \o <<";">>>>

\* A call holding a number, a string and a nested call has been compiled.
C1_Witness ==
    /\ pc = "generated"
    /\ \E i, j, k \in 1..Len(sexpr.params) :
          /\ sexpr.params[i].type = "NumberLiteral"
          /\ sexpr.params[j].type = "StringLiteral"
          /\ sexpr.params[j].value # <<>>
          /\ sexpr.params[k].type = "CallExpression"
    /\ Len(output) = 1

-----------------------------------------------------------------------------
(* Claims about the tokenizer, under SpecTok *)

unrecognised(char) ==
    ~(numberReg(char) \/ letterReg(char) \/ parenReg(char) \/ whiteSpaceReg(char)
      \/ char = "\"")

\* C3: when the cursor is on a character that is not a digit, a letter, a
\* paren, whitespace or a double quote, the tokenizer emits no token for it
\* and advances the cursor past it (so that the scan goes on and ends).
C3_SkipsUnrecognised ==
    [][(pc = "scan" /\ current < Len(input) /\ unrecognised(charAt(input, current)))
          => (current' = current + 1 /\ tokens' = tokens)]_vars

\* The greedy longest-match scan of s from position i (1-based): ok tells
\* whether the text is made only of digits, letters, parens, whitespace and
\* closed double-quoted strings, toks are its tokens.
inClass(kind, char) == IF kind = "number" THEN numberReg(char) ELSE letterReg(char)

\* The last position of the maximal run of the class that starts at i.
runEnd(s, i, kind) ==
    CHOOSE j \in i..Len(s) :
        /\ \A k \in i..j : inClass(kind, s[k])
        /\ j = Len(s) \/ ~inClass(kind, s[j + 1])

RECURSIVE greedy(_, _)
greedy(s, i) ==
    IF i > Len(s) THEN [ok |-> TRUE, toks |-> <<>>]
    ELSE IF numberReg(s[i])
    THEN LET j == runEnd(s, i, "number")
             rest == greedy(s, j + 1)
         IN  [ok |-> rest.ok, toks |-> <<token("number", SubSeq(s, i, j))>> \o rest.toks]
    ELSE IF letterReg(s[i])
    THEN LET j == runEnd(s, i, "name")
             rest == greedy(s, j + 1)
         IN  [ok |-> rest.ok, toks |-> <<token("name", SubSeq(s, i, j))>> \o rest.toks]
    ELSE IF parenReg(s[i])
    THEN LET rest == greedy(s, i + 1)
         IN  [ok |-> rest.ok, toks |-> <<token("paren", <<s[i]>>)>> \o rest.toks]
    ELSE IF whiteSpaceReg(s[i]) THEN greedy(s, i + 1)
    ELSE IF s[i] = "\"" /\ \E k \in (i + 1)..Len(s) : s[k] = "\""
    THEN LET k == CHOOSE k \in (i + 1)..Len(s) :
                      s[k] = "\"" /\ \A m \in (i + 1)..(k - 1) : s[m] # "\""
             rest == greedy(s, k + 1)
         IN  [ok |-> rest.ok,
              toks |-> <<token("string", SubSeq(s, i + 1, k - 1))>> \o rest.toks]
    ELSE [ok |-> FALSE, toks |-> <<>>]

isPrefix(a, b) == Len(a) <= Len(b) /\ a = SubSeq(b, 1, Len(a))

collecting == [number |-> "number", letter |-> "name", string |-> "string"]

\* C4: on a text made only of digits, letters, parens, whitespace and closed
\* quoted strings the tokenizer returns exactly the tokens of the greedy
\* longest-match scan; until it returns, the tokens pushed and the text being
\* collected for the next token are a beginning of them.
C4_GreedyTokens ==
    LET g == greedy(input, 1) IN
    (pc \in {"scan", "number", "letter", "string", "tokenized"} /\ g.ok) =>
        /\ isPrefix(tokens, g.toks)
        /\ pc = "tokenized" => tokens = g.toks
        /\ pc \in DOMAIN collecting =>
              /\ Len(tokens) < Len(g.toks)
              /\ g.toks[Len(tokens) + 1].type = collecting[pc]
              /\ isPrefix(value, g.toks[Len(tokens) + 1].value)

-----------------------------------------------------------------------------
(* Claims about the parser and the transformer of its trees, under SpecParse *)

\* The places of the nodes of the tree below and including the node at path.
RECURSIVE pathsFrom(_, _)
pathsFrom(node, path) ==
    {path} \cup UNION {pathsFrom(children(node)[i], Append(path, i)) :
                          i \in 1..Len(children(node))}

paths(root) == pathsFrom(root, rootPath)

pathsOfType(root, type) == {p \in paths(root) : deref(root, p).type = type}

\* A parser that reads the grammar: an expression is a number, a string or
\* `(` name expression* `)`.  refExpr reads one expression at token i
\* (1-based), refList the expressions up to `)` or the end.
RECURSIVE refExpr(_, _)
RECURSIVE refList(_, _, _)
refFail == [ok |-> FALSE, node |-> noNode, nodes |-> <<>>, next |-> 0]

refExpr(toks, i) ==
    IF i > Len(toks) THEN refFail
    ELSE IF toks[i].type = "number"
    THEN [ok |-> TRUE, node |-> [type |-> "NumberLiteral", value |-> toks[i].value],
          nodes |-> <<>>, next |-> i + 1]
    ELSE IF toks[i].type = "string"
    THEN [ok |-> TRUE, node |-> [type |-> "StringLiteral", value |-> toks[i].value],
          nodes |-> <<>>, next |-> i + 1]
    ELSE IF toks[i] = token("paren", <<"(">>) /\ i + 1 <= Len(toks)
            /\ toks[i + 1].type = "name"
    THEN LET args == refList(toks, i + 2, <<>>) IN
         IF args.ok /\ args.next <= Len(toks)
         THEN [ok |-> TRUE,
               node |-> [type |-> "CallExpression", name |-> toks[i + 1].value,
                         params |-> args.nodes],
               nodes |-> <<>>, next |-> args.next + 1]
         ELSE refFail
    ELSE refFail

refList(toks, i, acc) ==
    IF i > Len(toks) \/ toks[i] = token("paren", <<")">>)
    THEN [ok |-> TRUE, node |-> noNode, nodes |-> acc, next |-> i]
    ELSE LET e == refExpr(toks, i) IN
         IF e.ok THEN refList(toks, e.next, Append(acc, e.node)) ELSE refFail

\* The token sequence as a concatenation of well-formed top-level expressions.
refProgram(toks) ==
    LET r == refList(toks, 1, <<>>) IN
    [ok |-> r.ok /\ r.next > Len(toks), body |-> r.nodes]

parserReturned == pc \in {"parsed", "transformed", "transformError", "generated"}

parserDone == parserReturned \/ pc = "parseError"

\* C2: on the concatenation of n >= 1 well-formed top-level expressions the
\* parser returns a Program whose body holds the n nodes of the expressions,
\* in source order.
C2_BodyPerExpression ==
    LET r == refProgram(tokens) IN
    (parserDone /\ r.ok /\ Len(r.body) >= 1) =>
        (parserReturned /\ ast = [type |-> "Program", body |-> r.body])

\* The number of `(` of the sequence that no later `)` closes.
RECURSIVE openCalls(_, _, _)
openCalls(toks, i, depth) ==
    IF i > Len(toks) THEN depth
    ELSE IF toks[i] = token("paren", <<"(">>) THEN openCalls(toks, i + 1, depth + 1)
    ELSE IF toks[i] = token("paren", <<")">>) /\ depth > 0
    THEN openCalls(toks, i + 1, depth - 1)
    ELSE openCalls(toks, i + 1, depth)

\* C5: on a token sequence in which a call is opened with `(` and the stream
\* ends before its matching `)`, the parser fails and returns no tree.
C5_UnterminatedFails ==
    (parserDone /\ openCalls(tokens, 1, 0) > 0) => pc = "parseError"

\* C9: in every tree the parser returns, the name of each CallExpression is
\* the text of a token of kind name.
C9_NameIsNameToken ==
    parserReturned =>
        \A p \in pathsOfType(ast, "CallExpression") :
            \E i \in 1..Len(tokens) :
                tokens[i].type = "name" /\ tokens[i].value = deref(ast, p).name

transformerReturned == pc \in {"transformed", "generated"}

targetBody == heap.arrays[newAst.body]

isNew(element) == "src" \notin DOMAIN element

isStatementOfCall(element) ==
    /\ isNew(element)
    /\ element.type = "ExpressionStatement"
    /\ isNew(element.expression)
    /\ element.expression.type = "CallExpression"

\* C6 as stated: every element of the body of the target Program is an
\* ExpressionStatement wrapping one CallExpression, for every tree the parser
\* can return.
C6_OnlyStatements ==
    transformerReturned =>
        \A i \in 1..Len(targetBody) : isStatementOfCall(targetBody[i])

\* C6 as amended: the target body has one element per element of the source
\* body, in order; the element for a top-level CallExpression is an
\* ExpressionStatement wrapping one CallExpression of the same name (never a
\* bare CallExpression), and the element for a top-level literal is that
\* literal, bare.
C6_StatementPerTopLevelCall ==
    transformerReturned =>
        /\ Len(targetBody) = Len(ast.body)
        /\ \A i \in 1..Len(ast.body) :
              IF ast.body[i].type = "CallExpression"
              THEN /\ isStatementOfCall(targetBody[i])
                   /\ targetBody[i].expression.callee.name = ast.body[i].name
              ELSE targetBody[i] = [src |-> <<0, i>>]

\* A parsed call with a call among its arguments has been transformed.
C6_Witness ==
    /\ pc = "transformed"
    /\ Len(tokens) > 0
    /\ Len(ast.body) = 1
    /\ ast.body[1].type = "CallExpression"
    /\ \E j \in 1..Len(ast.body[1].params) : ast.body[1].params[j].type = "CallExpression"
    /\ isStatementOfCall(targetBody[1])

-----------------------------------------------------------------------------
(* Claims about the traverser and the transformer, under SpecTree *)

literalTypes == {"NumberLiteral", "StringLiteral"}

parentOf(path) == SubSeq(path, 1, Len(path) - 1)

properAncestor(p, q) == Len(p) < Len(q) /\ p = SubSeq(q, 1, Len(p))

\* p and q part ways at some depth, p through the earlier child.
leftOf(p, q) ==
    \E k \in 1..Len(p) :
        /\ k <= Len(q)
        /\ SubSeq(p, 1, k - 1) = SubSeq(q, 1, k - 1)
        /\ p[k] < q[k]

\* The order depth-first traversal asks of two calls: enter before exit of a
\* node, enter of a node before every call on a descendant, every call on a
\* descendant before exit of the node, and every call on or below a child
\* before every call on or below a later child.
mustPrecede(a, b) ==
    \/ a.node = b.node /\ a.method = "enter" /\ b.method = "exit"
    \/ properAncestor(a.node, b.node) /\ a.method = "enter"
    \/ properAncestor(b.node, a.node) /\ b.method = "exit"
    \/ leftOf(a.node, b.node)

\* The calls a visitor is owed: one per node and method it defines, with the
\* containing node as parent (null for the root).
owedCalls(root, v) ==
    {[method |-> m, node |-> p, parent |-> parentOf(p)] :
        m \in {"enter", "exit"}, p \in paths(root)}
    \ {c \in [method : {"enter", "exit"}, node : paths(root),
               parent : {parentOf(p) : p \in paths(root)}] :
          v[deref(root, c.node).type][c.method] = NONE}

\* C8: the traverser visits depth-first, children left to right, calling
\* enter(node, parent) before and exit(node, parent) after the node's
\* descendants, each once, the root with parent null and every other node
\* with the node containing it.
C8_DepthFirstOrder ==
    pc # "tree" =>
        /\ {calls[i] : i \in 1..Len(calls)} = owedCalls(ast, visitor)
        /\ Len(calls) = Cardinality(owedCalls(ast, visitor))
        /\ \A i \in 1..Len(calls) : \A j \in (i + 1)..Len(calls) :
              ~mustPrecede(calls[j], calls[i])

\* A tree of four nodes below the Program, three levels deep, has been
\* traversed with a visitor that defines every method.
C8_Witness ==
    /\ pc = "parsed"
    /\ Len(calls) = 10
    /\ \E p \in paths(ast) : Len(p) = 4
    /\ \E p \in paths(ast) : Len(p) = 2 /\ p[2] = 2

\* The number of CallExpression nodes of the target tree at and below an
\* array element.
RECURSIVE targetCalls(_, _, _)
RECURSIVE targetCallsIn(_, _, _)
targetCallsIn(root, h, array) ==
    IF array = <<>> THEN 0
    ELSE targetCalls(root, h, array[1]) + targetCallsIn(root, h, Tail(array))

targetCalls(root, h, element) ==
    IF ~isNew(element)
    THEN Cardinality({p \in pathsFrom(deref(root, element.src), element.src) :
                        deref(root, p).type = "CallExpression"})
    ELSE IF element.type = "ExpressionStatement"
    THEN targetCalls(root, h, element.expression)
    ELSE IF element.type = "CallExpression"
    THEN 1 + targetCallsIn(root, h, h.arrays[element.arguments])
    ELSE 0

\* C7: the target tree has as many CallExpression nodes as the source tree.
C7_SameNumberOfCalls ==
    transformerReturned =>
        targetCallsIn(ast, heap, targetBody)
            = Cardinality(pathsOfType(ast, "CallExpression"))

\* A tree with calls nested two deep and a second top-level call has been
\* transformed.
C7_Witness ==
    /\ pc = "transformed"
    /\ \E p \in pathsOfType(ast, "CallExpression") : Len(p) = 4
    /\ Len(ast.body) >= 2
    /\ ast.body[2].type = "CallExpression"

\* Every element of every array of the target tree.
elements(h) ==
    UNION {{h.arrays[a][i] : i \in 1..Len(h.arrays[a])} : a \in 1..Len(h.arrays)}

\* C10 as stated: no node of the target tree is a source node, and nothing
\* reachable from the source tree refers to a sequence of the target tree.
C10_NothingShared ==
    transformerReturned =>
        /\ \A e \in elements(heap) : isNew(e)
        /\ DOMAIN heap.ctx = {}

callOf(element) ==
    IF element.type = "ExpressionStatement" THEN element.expression ELSE element

\* C10 as amended: the ExpressionStatement, CallExpression and Identifier
\* nodes of the target tree are newly constructed, but every literal of the
\* target tree is the source literal node itself, appended to the sequence
\* of its parent's target node, and every source Program and CallExpression
\* node keeps a _context field that refers to a sequence of the target tree:
\* the target body for the root, the arguments of its target call for a call.
C10_LiteralsAndContextShared ==
    transformerReturned =>
        /\ \A e \in elements(heap) :
              IF isNew(e)
              THEN e.type \in {"ExpressionStatement", "CallExpression"}
              ELSE deref(ast, e.src).type \in literalTypes
        /\ DOMAIN heap.ctx = pathsOfType(ast, "Program") \cup pathsOfType(ast, "CallExpression")
        /\ heap.ctx[rootPath] = newAst.body
        /\ \A p \in paths(ast) \ {rootPath} :
              LET into == heap.arrays[heap.ctx[parentOf(p)]]
                  e == into[p[Len(p)]]
              IN  /\ Len(into) = Len(children(deref(ast, parentOf(p))))
                  /\ IF deref(ast, p).type \in literalTypes
                     THEN e = [src |-> p]
                     ELSE /\ isNew(e)
                          /\ callOf(e).type = "CallExpression"
                          /\ callOf(e).arguments = heap.ctx[p]
                          /\ callOf(e).callee = [type |-> "Identifier",
                                                 name |-> deref(ast, p).name]

\* A tree with a literal inside a nested call has been transformed.
C10_Witness ==
    /\ pc = "transformed"
    /\ \E p \in paths(ast) : Len(p) = 4 /\ deref(ast, p).type \in literalTypes
    /\ \E e \in elements(heap) : ~isNew(e)

=============================================================================
